---- MODULE Spec2Model ----
(***************************************************************************)
(* Earth-observation scheduling (Space_OR): the catalog loader             *)
(* (Inputbuilder), the MIP model builder (Solver) and the driver           *)
(* (main.run), as a state machine.                                         *)
(*                                                                         *)
(* Strings are sequences of code points.  Continuous Gurobi variables are  *)
(* held on a grid of 1/Scale; every constraint is evaluated multiplied by  *)
(* Scale, so all arithmetic is over the integers.                          *)
(***************************************************************************)
EXTENDS Integers, Sequences, FiniteSets, TLC

VARIABLES
    pc,               \* position of main.run / the caller of Solver
    downlink_df,      \* the rows pd.read_csv gave read_downlink_data
    vtw_df,           \* the rows pd.read_csv gave read_vtw_data
    downlink,         \* Inputbuilder.downlink   : sequence of Downlink objects
    groudstation,     \* Inputbuilder.groudstation : station id -> GroundStation
    statellite,       \* Inputbuilder.statellite : satellite id -> Statellite
    target,           \* Inputbuilder.target     : target id -> Target
    vtw,              \* Inputbuilder.vtw        : sequence of Visual_Time_Window
    rechargewindow,   \* input_data.rechargewindow, or NoAttr when the attribute is missing
    time_slots,       \* Solver.time_slots
    dl_time_slots,    \* Solver.dl_time_slots
    combined_slots,   \* Solver.combined_slots
    vt_window,        \* Solver.vt_window
    downlink_window,  \* Solver.downlink_window
    recharge_window,  \* Solver.recharge_window
    vars_,            \* the Gurobi variables of eos_model: key -> [vtype, lb, ub]
    constrs,          \* the linear constraints of eos_model
    objective,        \* the objective of eos_model (coefficients times 10)
    status,           \* eos_model.status
    sol,              \* the oracle's answer: SolCount, and var.x for every variable
    console,          \* the branch of solve_mip that printed
    memory_data,      \* the rows of memory_tracking.csv, by (satellite, slot)
    target_data,      \* the 'Observed' column of target_analysis.csv, by target
    run_id,           \* the process (1 or 2) whose Solver the variables above show
    other,            \* the Solver and report state of the other process, if there is one
    files             \* the files on disk: name -> [by: the process that wrote, content]

vars == <<pc, downlink_df, vtw_df, downlink, groudstation, statellite, target, vtw,
          rechargewindow, time_slots, dl_time_slots, combined_slots, vt_window,
          downlink_window, recharge_window, vars_, constrs, objective, status, sol,
          console, memory_data, target_data,
          run_id, other, files>>

-----------------------------------------------------------------------------
(* Bounds of the model *)

\* rows of VTW.csv
MaxVtwRows == 2
\* rows of Downlink.csv
MaxDlRows == 2
\* rows of VTW.csv and Downlink.csv together
MaxWindowRows == 3
\* recharge window records handed to Solver
MaxRechargeRows == 1
\* grid of the continuous variables: values are multiples of 1/Scale
Scale == 3
\* a memory variable has no upper bound (solver.py:145-149); values tried are 0..MemMax
MemMax == 11

-----------------------------------------------------------------------------
(* Characters and strings *)

\* code points: the blank str.strip() removes, the en-dash the loader splits on
SPACE == 32
ENDASH == 8211

\* the one-character label "n"
Digit(n) == <<48 + n>>

\* str.strip(): leading and trailing whitespace removed
RECURSIVE lstrip(_)
lstrip(s) == IF s # <<>> /\ Head(s) = SPACE THEN lstrip(Tail(s)) ELSE s

RECURSIVE rstrip(_)
rstrip(s) == IF s # <<>> /\ s[Len(s)] = SPACE THEN rstrip(SubSeq(s, 1, Len(s) - 1)) ELSE s

strip(s) == rstrip(lstrip(s))

\* str.split(sep) for a one-character separator: the pieces between separators
RECURSIVE split(_, _)
split(s, sep) ==
    IF \E i \in 1..Len(s) : s[i] = sep
    THEN LET i == CHOOSE j \in 1..Len(s) : s[j] = sep /\ \A h \in 1..(j - 1) : s[h] # sep
         IN  <<SubSeq(s, 1, i - 1)>> \o split(SubSeq(s, i + 1, Len(s)), sep)
    ELSE <<s>>

\* Python's order on str: lexicographic by code point
RECURSIVE StrLess(_, _)
StrLess(a, b) ==
    IF b = <<>> THEN FALSE
    ELSE IF a = <<>> THEN TRUE
    ELSE IF Head(a) # Head(b) THEN Head(a) < Head(b)
    ELSE StrLess(Tail(a), Tail(b))

\* sorted(S) for a set of strings
RECURSIVE sorted(_)
sorted(S) ==
    IF S = {} THEN <<>>
    ELSE LET lo == CHOOSE a \in S : \A b \in S \ {a} : StrLess(a, b)
         IN  <<lo>> \o sorted(S \ {lo})

Range(f) == {f[i] : i \in DOMAIN f}

Contains(seq, e) == \E i \in 1..Len(seq) : seq[i] = e

-----------------------------------------------------------------------------
(* The CSV files: the inputs of Inputbuilder.build *)

NoAttr == "NoAttr"

SatelliteIds == {"S1", "S2"}
TargetIds == {"T1", "T2"}
StationIds == {"G1", "G2"}

\* slot labels "1", "2" and interval strings such as "1 – 2"
Interval(a, sep, b) == a \o <<SPACE, sep, SPACE>> \o b

TimeSlotStrings ==
    { Interval(Digit(1), ENDASH, Digit(2)), Interval(Digit(2), ENDASH, Digit(3)) }

\* interval strings without an en-dash: "1 - 2" (45 is the ASCII hyphen) and "1 2"
OtherTimeSlotStrings ==
    { Interval(Digit(1), 45, Digit(2)), Digit(1) \o <<SPACE>> \o Digit(2) }

\* Satellite.csv (orbit plays no part and is left out)
SatelliteRow(id) ==
    [id |-> id,
     memory_capacity |-> IF id = "S1" THEN 10 ELSE 5,
     max_obs_per_day |-> IF id = "S1" THEN 1 ELSE 2]

SatelliteFiles == { <<SatelliteRow("S1"), SatelliteRow("S2")>>, <<SatelliteRow("S2")>> }

\* Target.csv (latitude and longitude play no part and are left out); urgency is a
\* positive real and is held in tenths: T1 has urgency 2.0, T2 has urgency 1.0
TargetRow(id) ==
    [id |-> id,
     urgency |-> IF id = "T1" THEN 20 ELSE 10,
     importance |-> IF id = "T1" THEN 3 ELSE 1]

TargetFiles == { <<TargetRow("T1"), TargetRow("T2")>>, <<TargetRow("T1")>> }

\* GroundStation.csv (location plays no part and is left out)
StationRow(id) == [id |-> id, max_data_rate |-> IF id = "G1" THEN 10 ELSE 4]

GroundStationFiles == { <<StationRow("G1"), StationRow("G2")>>, <<StationRow("G1")>> }

\* the catalogs tried are the full one and the one with a single satellite, target and station
SameSize(file, dict) == Len(file) = Cardinality(DOMAIN dict)

\* the rows of VTW.csv and of Downlink.csv (duration plays no part and is left out)
VtwRows ==
    [time_slot : TimeSlotStrings, satellite_id : SatelliteIds, target_id : TargetIds]
        \cup [time_slot : OtherTimeSlotStrings, satellite_id : {"S1"}, target_id : {"T1"}]

DownlinkRows ==
    [time_slot : TimeSlotStrings, satellite_id : SatelliteIds,
     groundstation_id : StationIds, max_data : {8}]
        \cup [time_slot : OtherTimeSlotStrings, satellite_id : {"S1"},
              groundstation_id : {"G1"}, max_data : {8}]

\* a file is a sequence of distinct rows, in one canonical order
RECURSIVE SetToSeq(_)
SetToSeq(S) == IF S = {} THEN <<>>
               ELSE LET e == CHOOSE a \in S : TRUE IN <<e>> \o SetToSeq(S \ {e})

FilesOf(rows, n) == { SetToSeq(R) : R \in {Q \in SUBSET rows : Cardinality(Q) <= n} }

VtwFiles == FilesOf(VtwRows, MaxVtwRows)

DownlinkFiles == FilesOf(DownlinkRows, MaxDlRows)

\* recharge window records: (satellite, slot label); the label may carry blanks
RechargeRecords ==
    [satelliteid : {"S1"}, timeSlotStart : {<<SPACE>> \o Digit(1), Digit(2)}]

RechargeInputs == FilesOf(RechargeRecords, MaxRechargeRows)

-----------------------------------------------------------------------------
(* Inputbuilder *)

\* row['Time Slot'].split('–')[0].strip() and [1].strip(): both indexes must exist
TimeSlotOk(s) == Len(split(s, ENDASH)) >= 2

time_slot_start(s) == strip(split(s, ENDASH)[1])

time_slot_end(s) == strip(split(s, ENDASH)[2])

Downlink(row) ==
    [timeSlotStart |-> time_slot_start(row.time_slot),
     timeSlotEnd |-> time_slot_end(row.time_slot),
     satelliteid |-> row.satellite_id,
     groundstationid |-> row.groundstation_id,
     max_data |-> row.max_data]

Visual_Time_Window(row) ==
    [timeSlotStart |-> time_slot_start(row.time_slot),
     timeSlotEnd |-> time_slot_end(row.time_slot),
     satelliteid |-> row.satellite_id,
     target_id |-> row.target_id]

\* a dict keyed by the id column: a later row with the same id replaces the earlier
ById(file) ==
    [id \in {file[i].id : i \in 1..Len(file)} |->
        LET last == CHOOSE i \in 1..Len(file) :
                        file[i].id = id /\ \A j \in (i + 1)..Len(file) : file[j].id # id
        IN  file[last]]

\* no solution is available: reading var.x raises
NoSolution == [SolCount |-> 0, x |-> <<>>]

SolverUnset ==
    /\ time_slots = <<>> /\ dl_time_slots = <<>> /\ combined_slots = <<>>
    /\ vt_window = <<>> /\ downlink_window = <<>> /\ recharge_window = <<>>
    /\ vars_ = <<>> /\ constrs = {} /\ objective = <<>>
    /\ status = "LOADED" /\ sol = NoSolution
    /\ console = "" /\ memory_data = <<>> /\ target_data = <<>>

\* a single process runs main.run and nothing is on disk yet
NoRun == [pc |-> "absent", status |-> "LOADED", sol |-> NoSolution, console |-> "",
          memory_data |-> <<>>, target_data |-> <<>>]

SingleRun == run_id = 1 /\ other = NoRun /\ files = <<>>

Init ==
    /\ pc = "read_downlink"
    /\ downlink_df = <<>> /\ vtw_df = <<>>
    /\ downlink = <<>> /\ groudstation = <<>> /\ statellite = <<>>
    /\ target = <<>> /\ vtw = <<>>
    /\ rechargewindow = NoAttr
    /\ SolverUnset
    /\ SingleRun

SolverVars == <<time_slots, dl_time_slots, combined_slots, vt_window, downlink_window,
                recharge_window, vars_, constrs, objective, status, sol, console,
                memory_data, target_data>>

\* the rows the loop of a reader handles before split(...)[1] raises IndexError
RowsLoaded(file) ==
    CHOOSE n \in 0..Len(file) :
        /\ \A i \in 1..n : TimeSlotOk(file[i].time_slot)
        /\ n < Len(file) => ~TimeSlotOk(file[n + 1].time_slot)

read_downlink_data ==
    /\ pc = "read_downlink"
    /\ \E file \in DownlinkFiles :
        /\ downlink_df' = file
        /\ downlink' = [i \in 1..RowsLoaded(file) |-> Downlink(file[i])]
        /\ pc' = IF RowsLoaded(file) = Len(file) THEN "read_groundstation" ELSE "error"
    /\ UNCHANGED <<run_id, other, files,
                   vtw_df, groudstation, statellite, target, vtw, rechargewindow, SolverVars>>

read_groundstation_data ==
    /\ pc = "read_groundstation"
    /\ \E file \in GroundStationFiles : groudstation' = ById(file)
    /\ pc' = "read_statellite"
    /\ UNCHANGED <<run_id, other, files,
                   downlink_df, vtw_df, downlink, statellite, target, vtw, rechargewindow,
                   SolverVars>>

read_statellite_data ==
    /\ pc = "read_statellite"
    /\ \E file \in {f \in SatelliteFiles : SameSize(f, groudstation)} :
          statellite' = ById(file)
    /\ pc' = "read_target"
    /\ UNCHANGED <<run_id, other, files,
                   downlink_df, vtw_df, downlink, groudstation, target, vtw, rechargewindow,
                   SolverVars>>

read_target_data ==
    /\ pc = "read_target"
    /\ \E file \in {f \in TargetFiles : SameSize(f, statellite)} : target' = ById(file)
    /\ pc' = "read_vtw"
    /\ UNCHANGED <<run_id, other, files,
                   downlink_df, vtw_df, downlink, groudstation, statellite, vtw,
                   rechargewindow, SolverVars>>

\* faulty variant: a row whose 'Time Slot' cannot be split is skipped and the build goes on
read_vtw_data_skipping ==
    /\ pc = "read_vtw"
    /\ \E file \in {f \in VtwFiles : Len(f) + Len(downlink) <= MaxWindowRows} :
        /\ vtw_df' = file
        /\ \E good \in {SelectSeq(file, LAMBDA row : TimeSlotOk(row.time_slot))} :
              vtw' = [i \in 1..Len(good) |-> Visual_Time_Window(good[i])]
        /\ pc' = "built"
    /\ UNCHANGED <<run_id, other, files,
                   downlink_df, downlink, groudstation, statellite, target, rechargewindow,
                   SolverVars>>

read_vtw_data ==
    /\ pc = "read_vtw"
    /\ \E file \in {f \in VtwFiles : Len(f) + Len(downlink) <= MaxWindowRows} :
        /\ vtw_df' = file
        /\ vtw' = [i \in 1..RowsLoaded(file) |-> Visual_Time_Window(file[i])]
        /\ pc' = IF RowsLoaded(file) = Len(file) THEN "built" ELSE "error"
    /\ UNCHANGED <<run_id, other, files,
                   downlink_df, downlink, groudstation, statellite, target, rechargewindow,
                   SolverVars>>

-----------------------------------------------------------------------------
(* Solver: parameters *)

\* Constants and Parameters of Solver.__init__
data_per_obs == 5
data_down == 10
max_per_day_obs == 5
power_capacity == 100
power_per_obs == 10
power_per_downlink == 5
charge_rate_per_slot == 15

\* Inputbuilder._create_time_slot_mapping: the two sorted lists of distinct start labels
_create_time_slot_mapping ==
    <<sorted({strip(vtw[i].timeSlotStart) : i \in 1..Len(vtw)}),
      sorted({strip(downlink[i].timeSlotStart) : i \in 1..Len(downlink)})>>

\* faulty variant: the two lists are concatenated, neither merged nor sorted
CombinedSlotsConcatenated(ts, dl) == ts \o dl

\* sorted(set(self.time_slots + self.dl_time_slots))
CombinedSlots(ts, dl) == sorted(Range(ts) \cup Range(dl))

\* faulty variant: a window of the satellite at the slot is taken to show every target
VtwParametersAnyTarget(ts) ==
    [key \in (DOMAIN statellite) \X (DOMAIN target) \X Range(ts) |->
        IF \E i \in 1..Len(vtw) :
              /\ vtw[i].satelliteid = key[1]
              /\ strip(vtw[i].timeSlotStart) = key[3]
        THEN 1 ELSE 0]

_build_vtw_parameters(ts) ==
    [key \in (DOMAIN statellite) \X (DOMAIN target) \X Range(ts) |->
        IF \E i \in 1..Len(vtw) :
              /\ vtw[i].satelliteid = key[1]
              /\ vtw[i].target_id = key[2]
              /\ strip(vtw[i].timeSlotStart) = key[3]
        THEN 1 ELSE 0]

_build_downlink_parameters(dl) ==
    [key \in (DOMAIN statellite) \X (DOMAIN groudstation) \X Range(dl) |->
        IF \E i \in 1..Len(downlink) :
              /\ downlink[i].satelliteid = key[1]
              /\ downlink[i].groundstationid = key[2]
              /\ strip(downlink[i].timeSlotStart) = key[3]
        THEN 1 ELSE 0]

_build_recharge_parameters(rw, cs) ==
    [key \in (DOMAIN statellite) \X Range(cs) |->
        IF \E i \in 1..Len(rw) :
              /\ rw[i].satelliteid = key[1]
              /\ strip(rw[i].timeSlotStart) = key[2]
        THEN 1 ELSE 0]

\* Solver.__init__ on an input_data object whose rechargewindow attribute is rw
Solver__init__(rw) ==
    /\ rechargewindow' = rw
    /\ IF rw = NoAttr
       THEN \* line 22: AttributeError, nothing of the Solver exists
            /\ pc' = "error"
            /\ UNCHANGED SolverVars
       ELSE LET slots == _create_time_slot_mapping
                cs == CombinedSlots(slots[1], slots[2])
            IN  /\ time_slots' = slots[1]
                /\ dl_time_slots' = slots[2]
                /\ combined_slots' = cs
                /\ vt_window' = _build_vtw_parameters(slots[1])
                /\ downlink_window' = _build_downlink_parameters(slots[2])
                /\ recharge_window' = _build_recharge_parameters(rw, cs)
                /\ pc' = "create_decision_variables"
                /\ UNCHANGED <<vars_, constrs, objective, status, sol, console,
                               memory_data, target_data>>
    /\ UNCHANGED <<run_id, other, files,
                   downlink_df, vtw_df, downlink, groudstation, statellite, target, vtw>>

\* main.run: Solver(input_builder), the object Inputbuilder.build() left behind
run_Solver ==
    /\ pc = "built"
    /\ Solver__init__(rechargewindow)

\* any other caller: Solver(input_data) on the same catalog plus a rechargewindow dict
call_Solver ==
    /\ pc = "built"
    /\ \E rw \in RechargeInputs : Solver__init__(rw)

-----------------------------------------------------------------------------
(* Solver: decision variables *)

\* the keys of self.x, self.y, self.d, self.m, self.p inside the one variable map
xKey(s, t, k) == <<"x", s, t, k>>
yKey(s, g, k) == <<"y", s, g, k>>
dKey(s, g, k) == <<"d", s, g, k>>
mKey(s, k) == <<"m", s, "", k>>
pKey(s, k) == <<"p", s, "", k>>

KeysOf(kind) == {v \in DOMAIN vars_ : v[1] = kind}

\* addVar(vtype=GRB.BINARY)
Binary == [vtype |-> "B", lb |-> 0, has_ub |-> TRUE, ub |-> 1]

\* addVar(vtype=GRB.CONTINUOUS, lb=.., ub=..); without ub the variable is unbounded above
Continuous(lb, has_ub, ub) == [vtype |-> "C", lb |-> lb, has_ub |-> has_ub, ub |-> ub]

\* faulty variant: the memory variables are created without the lower bound 0
DecisionVariablesFreeMemory ==
    LET S == DOMAIN statellite
        xs == {xKey(s, t, k) : s \in S, t \in DOMAIN target, k \in Range(time_slots)}
        ys == {yKey(s, g, k) : s \in S, g \in DOMAIN groudstation, k \in Range(dl_time_slots)}
        ds == {dKey(s, g, k) : s \in S, g \in DOMAIN groudstation, k \in Range(dl_time_slots)}
        ms == {mKey(s, k) : s \in S, k \in Range(combined_slots)}
        ps == {pKey(s, k) : s \in S, k \in Range(combined_slots)}
    IN  [v \in xs \cup ys \cup ds \cup ms \cup ps |->
            IF v[1] \in {"x", "y"} THEN Binary
            ELSE IF v[1] = "d" THEN Continuous(0, TRUE, data_down)
            ELSE IF v[1] = "m" THEN Continuous(-data_down, FALSE, 0)
            ELSE Continuous(0, TRUE, power_capacity)]

DecisionVariables ==
    LET S == DOMAIN statellite
        xs == {xKey(s, t, k) : s \in S, t \in DOMAIN target, k \in Range(time_slots)}
        ys == {yKey(s, g, k) : s \in S, g \in DOMAIN groudstation, k \in Range(dl_time_slots)}
        ds == {dKey(s, g, k) : s \in S, g \in DOMAIN groudstation, k \in Range(dl_time_slots)}
        ms == {mKey(s, k) : s \in S, k \in Range(combined_slots)}
        ps == {pKey(s, k) : s \in S, k \in Range(combined_slots)}
    IN  [v \in xs \cup ys \cup ds \cup ms \cup ps |->
            IF v[1] \in {"x", "y"} THEN Binary
            ELSE IF v[1] = "d" THEN Continuous(0, TRUE, data_down)
            ELSE IF v[1] = "m" THEN Continuous(0, FALSE, 0)
            ELSE Continuous(0, TRUE, power_capacity)]

create_decision_variables ==
    /\ pc = "create_decision_variables"
    /\ vars_' = DecisionVariables
    /\ pc' = "create_constraints"
    /\ UNCHANGED <<run_id, other, files,
                   downlink_df, vtw_df, downlink, groudstation, statellite, target, vtw,
                   rechargewindow,
                   time_slots, dl_time_slots, combined_slots, vt_window, downlink_window,
                   recharge_window, constrs, objective, status, sol, console,
                   memory_data, target_data>>

-----------------------------------------------------------------------------
(* Solver: constraints.  A constraint is  sum(lhs[v] * v) sense rhs  with    *)
(* every variable moved to the left, as Gurobi stores it.                    *)

Constr(name, lhs, sense, rhs) == [name |-> name, lhs |-> lhs, sense |-> sense, rhs |-> rhs]

\* coefficient map of a quicksum: coef on each key of keys that exists ("if key in self.x")
Terms(keys, coef) == [v \in keys \cap DOMAIN vars_ |-> coef]

\* 1. self.x[s,t,k] <= self.vt_window[s,t,k]
VtwConstraints ==
    { Constr(<<"vtw_constraint", s, t, k>>, Terms({xKey(s, t, k)}, 1), "<=", vt_window[<<s, t, k>>]) :
        s \in DOMAIN statellite, t \in DOMAIN target, k \in Range(time_slots) }

\* 2. observation limit per day
MaxObsConstraints ==
    { Constr(<<"max_obs_per_day", s>>,
             Terms({xKey(s, t, k) : t \in DOMAIN target, k \in Range(time_slots)}, 1),
             "<=", max_per_day_obs) :
        s \in DOMAIN statellite }

\* faulty variant of 3: the limit is taken per (target, satellite), so two satellites
\* may observe the same target
SingleObsPerSatellite ==
    { Constr(<<"single_obs", t, s>>,
             Terms({xKey(s, t, k) : k \in Range(time_slots)}, 1), "<=", 1) :
        t \in DOMAIN target, s \in DOMAIN statellite }

\* 3. single observation per target
SingleObsConstraints ==
    { Constr(<<"single_obs", t>>,
             Terms({xKey(s, t, k) : s \in DOMAIN statellite, k \in Range(time_slots)}, 1),
             "<=", 1) :
        t \in DOMAIN target }

\* obs_in and dl_out (or the power they consume) of satellite s at slot k, moved to the left
Flow(s, k, obs_coef, dl_coef) ==
    Terms({xKey(s, t, k) : t \in DOMAIN target}, obs_coef)
        @@ Terms({dKey(s, g, k) : g \in DOMAIN groudstation}, dl_coef)

\* faulty variant of 4: the balance of a later slot forgets the previous memory level
MemoryBalanceNoCarry ==
    { IF idx = 1
      THEN Constr(<<"mem_initial", s>>,
                  (mKey(s, combined_slots[idx]) :> 1)
                      @@ Flow(s, combined_slots[idx], -data_per_obs, 1),
                  "==", 0)
      ELSE Constr(<<"memory_balance", s, combined_slots[idx]>>,
                  (mKey(s, combined_slots[idx]) :> 1)
                      @@ Flow(s, combined_slots[idx], -data_per_obs, 1),
                  "==", 0) :
        s \in DOMAIN statellite, idx \in 1..Len(combined_slots) }

\* 4. memory balance over combined slots
MemoryBalanceConstraints ==
    { IF idx = 1
      THEN Constr(<<"mem_initial", s>>,
                  (mKey(s, combined_slots[idx]) :> 1)
                      @@ Flow(s, combined_slots[idx], -data_per_obs, 1),
                  "==", 0)
      ELSE Constr(<<"memory_balance", s, combined_slots[idx]>>,
                  (mKey(s, combined_slots[idx]) :> 1)
                      @@ (mKey(s, combined_slots[idx - 1]) :> -1)
                      @@ Flow(s, combined_slots[idx], -data_per_obs, 1),
                  "==", 0) :
        s \in DOMAIN statellite, idx \in 1..Len(combined_slots) }

\* faulty variant of 5: every satellite is given the downlink cap as its memory capacity
MemoryCapacityShared ==
    { Constr(<<"memory_capacity", s, k>>, (mKey(s, k) :> 1), "<=", data_down) :
        s \in DOMAIN statellite, k \in Range(combined_slots) }

\* 5. memory capacity
MemoryCapacityConstraints ==
    { Constr(<<"memory_capacity", s, k>>, (mKey(s, k) :> 1), "<=", statellite[s].memory_capacity) :
        s \in DOMAIN statellite, k \in Range(combined_slots) }

\* self.recharge_window.get((s, k), 0)
RechargeAt(s, k) ==
    IF <<s, k>> \in DOMAIN recharge_window THEN recharge_window[<<s, k>>] ELSE 0

\* faulty variant of 6: the recharge of the first slot is not credited
PowerBalanceNoFirstRecharge ==
    { IF idx = 1
      THEN Constr(<<"power_initial", s>>,
                  (pKey(s, combined_slots[idx]) :> 1)
                      @@ Flow(s, combined_slots[idx], power_per_obs, power_per_downlink),
                  "==", power_capacity)
      ELSE Constr(<<"power_balance", s, combined_slots[idx]>>,
                  (pKey(s, combined_slots[idx]) :> 1)
                      @@ (pKey(s, combined_slots[idx - 1]) :> -1)
                      @@ Flow(s, combined_slots[idx], power_per_obs, power_per_downlink),
                  "==",
                  charge_rate_per_slot * RechargeAt(s, combined_slots[idx])) :
        s \in DOMAIN statellite, idx \in 1..Len(combined_slots) }

\* 6. power balance over combined slots
PowerBalanceConstraints ==
    { IF idx = 1
      THEN Constr(<<"power_initial", s>>,
                  (pKey(s, combined_slots[idx]) :> 1)
                      @@ Flow(s, combined_slots[idx], power_per_obs, power_per_downlink),
                  "==",
                  power_capacity + charge_rate_per_slot * RechargeAt(s, combined_slots[idx]))
      ELSE Constr(<<"power_balance", s, combined_slots[idx]>>,
                  (pKey(s, combined_slots[idx]) :> 1)
                      @@ (pKey(s, combined_slots[idx - 1]) :> -1)
                      @@ Flow(s, combined_slots[idx], power_per_obs, power_per_downlink),
                  "==",
                  charge_rate_per_slot * RechargeAt(s, combined_slots[idx])) :
        s \in DOMAIN statellite, idx \in 1..Len(combined_slots) }

\* 7. power capacity
PowerCapacityConstraints ==
    { Constr(<<"power_capacity_upper", s, k>>, (pKey(s, k) :> 1), "<=", power_capacity) :
        s \in DOMAIN statellite, k \in Range(combined_slots) }
    \cup
    { Constr(<<"power_capacity_lower", s, k>>, (pKey(s, k) :> 1), ">=", 0) :
        s \in DOMAIN statellite, k \in Range(combined_slots) }

\* 8. self.y[s,g,k] <= self.downlink_window[s,g,k]
DownlinkWindowConstraints ==
    { Constr(<<"downlink_window", q[1], q[2], q[3]>>,
             (yKey(q[1], q[2], q[3]) :> 1), "<=", downlink_window[q]) :
        q \in {r \in (DOMAIN statellite) \X (DOMAIN groudstation) \X Range(dl_time_slots) :
                  yKey(r[1], r[2], r[3]) \in DOMAIN vars_} }

\* faulty variant of 9: the volume is capped by data_down without the indicator
LinkDownlinkUnlinked ==
    { Constr(<<"link_downlink_amount", q[1], q[2], q[3]>>,
             (dKey(q[1], q[2], q[3]) :> 1), "<=", data_down) :
        q \in {r \in (DOMAIN statellite) \X (DOMAIN groudstation) \X Range(dl_time_slots) :
                  /\ yKey(r[1], r[2], r[3]) \in DOMAIN vars_
                  /\ dKey(r[1], r[2], r[3]) \in DOMAIN vars_} }

\* faulty variant of 9: the volume is capped by the station's max_data_rate
LinkDownlinkByRate ==
    { Constr(<<"link_downlink_amount", q[1], q[2], q[3]>>,
             (dKey(q[1], q[2], q[3]) :> 1)
                 @@ (yKey(q[1], q[2], q[3]) :> -groudstation[q[2]].max_data_rate),
             "<=", 0) :
        q \in {r \in (DOMAIN statellite) \X (DOMAIN groudstation) \X Range(dl_time_slots) :
                  /\ yKey(r[1], r[2], r[3]) \in DOMAIN vars_
                  /\ dKey(r[1], r[2], r[3]) \in DOMAIN vars_} }

\* 9. self.d[s,g,k] <= self.data_down * self.y[s,g,k]
LinkDownlinkConstraints ==
    { Constr(<<"link_downlink_amount", q[1], q[2], q[3]>>,
             (dKey(q[1], q[2], q[3]) :> 1) @@ (yKey(q[1], q[2], q[3]) :> -data_down), "<=", 0) :
        q \in {r \in (DOMAIN statellite) \X (DOMAIN groudstation) \X Range(dl_time_slots) :
                  /\ yKey(r[1], r[2], r[3]) \in DOMAIN vars_
                  /\ dKey(r[1], r[2], r[3]) \in DOMAIN vars_} }

\* faulty variant of 10: the station is allowed one downlink per satellite
GroundStationConflictLoose ==
    { Constr(<<"groundstation_conflict", g, k>>,
             Terms({yKey(s, g, k) : s \in DOMAIN statellite}, 1),
             "<=", Cardinality(DOMAIN statellite)) :
        g \in DOMAIN groudstation, k \in Range(dl_time_slots) }

\* faulty variant of 10: the constraint is generated only where some window is open
GroundStationConflictWindowed ==
    { Constr(<<"groundstation_conflict", q[1], q[2]>>,
             Terms({yKey(s, q[1], q[2]) : s \in DOMAIN statellite}, 1), "<=", 1) :
        q \in {r \in (DOMAIN groudstation) \X Range(dl_time_slots) :
                  \E s \in DOMAIN statellite : downlink_window[<<s, r[1], r[2]>>] = 1} }

\* 10. ground station conflict
GroundStationConflictConstraints ==
    { Constr(<<"groundstation_conflict", g, k>>,
             Terms({yKey(s, g, k) : s \in DOMAIN statellite}, 1), "<=", 1) :
        g \in DOMAIN groudstation, k \in Range(dl_time_slots) }

\* 11. satellite downlink exclusivity
SatelliteExclusivityConstraints ==
    { Constr(<<"satellite_downlink_exclusivity", s, k>>,
             Terms({yKey(s, g, k) : g \in DOMAIN groudstation}, 1), "<=", 1) :
        s \in DOMAIN statellite, k \in Range(dl_time_slots) }

Constraints ==
    VtwConstraints \cup MaxObsConstraints \cup SingleObsConstraints
        \cup MemoryBalanceConstraints \cup MemoryCapacityConstraints
        \cup PowerBalanceConstraints \cup PowerCapacityConstraints
        \cup DownlinkWindowConstraints \cup LinkDownlinkConstraints
        \cup GroundStationConflictConstraints \cup SatelliteExclusivityConstraints

create_constraints ==
    /\ pc = "create_constraints"
    /\ constrs' = Constraints
    /\ pc' = "create_objective"
    /\ UNCHANGED <<run_id, other, files,
                   downlink_df, vtw_df, downlink, groudstation, statellite, target, vtw,
                   rechargewindow,
                   time_slots, dl_time_slots, combined_slots, vt_window, downlink_window,
                   recharge_window, vars_, objective, status, sol, console,
                   memory_data, target_data>>

-----------------------------------------------------------------------------
(* Solver: objective, with every coefficient multiplied by 10 (0.1 becomes 1; *)
(* urgency is already held in tenths)                                         *)

\* faulty variant: the downlink bonus is left out of the objective
ObjectiveNoBonus ==
    [v \in KeysOf("x") \cup KeysOf("d") |->
        IF v[1] = "x" THEN target[v[3]].urgency * target[v[3]].importance ELSE 0]

Objective ==
    [v \in KeysOf("x") \cup KeysOf("d") |->
        IF v[1] = "x" THEN target[v[3]].urgency * target[v[3]].importance ELSE 1]

create_objective ==
    /\ pc = "create_objective"
    /\ objective' = Objective
    /\ pc' = "solve_mip"
    /\ UNCHANGED <<run_id, other, files,
                   downlink_df, vtw_df, downlink, groudstation, statellite, target, vtw,
                   rechargewindow,
                   time_slots, dl_time_slots, combined_slots, vt_window, downlink_window,
                   recharge_window, vars_, constrs, status, sol, console,
                   memory_data, target_data>>

-----------------------------------------------------------------------------
(* The optimization oracle: eos_model.optimize()                             *)

\* the value of variable v under assignment a, times Scale
ScaledValue(v, a) == IF vars_[v].vtype = "B" THEN Scale * a[v] ELSE a[v]

RECURSIVE LinearSum(_, _, _)
LinearSum(coef, a, keys) ==
    IF keys = {} THEN 0
    ELSE LET v == CHOOSE u \in keys : TRUE
         IN  coef[v] * ScaledValue(v, a) + LinearSum(coef, a, keys \ {v})

\* assignment a satisfies constraint c
Holds(c, a) ==
    LET l == LinearSum(c.lhs, a, DOMAIN c.lhs)
        r == Scale * c.rhs
    IN  CASE c.sense = "<=" -> l <= r
          [] c.sense = ">=" -> l >= r
          [] c.sense = "==" -> l = r

\* the least and the greatest value of a variable, times Scale
Lower(v) == Scale * vars_[v].lb

Upper(v) == Scale * (IF vars_[v].has_ub THEN vars_[v].ub ELSE MemMax)

\* the values a variable may take: its type and bounds
Domain(v) == IF vars_[v].vtype = "B" THEN {0, 1} ELSE Lower(v)..Upper(v)

\* a complete assignment within the variables' bounds that satisfies every constraint
Feasible(a) ==
    /\ DOMAIN a = DOMAIN vars_
    /\ \A v \in DOMAIN vars_ : a[v] \in Domain(v)
    /\ \A c \in constrs : Holds(c, a)

\* the order in which the search fixes the variables: slot by slot, satellite by satellite
RECURSIVE StationVars(_, _, _)
StationVars(s, k, gs) ==
    IF gs = <<>> THEN <<>>
    ELSE (IF yKey(s, Head(gs), k) \in DOMAIN vars_
          THEN <<yKey(s, Head(gs), k), dKey(s, Head(gs), k)>> ELSE <<>>)
         \o StationVars(s, k, Tail(gs))

SatelliteBlock(s, k) ==
    SetToSeq({xKey(s, t, k) : t \in DOMAIN target} \cap DOMAIN vars_)
        \o StationVars(s, k, SetToSeq(DOMAIN groudstation))
        \o <<mKey(s, k), pKey(s, k)>>

RECURSIVE SlotVars(_, _)
SlotVars(k, ss) ==
    IF ss = <<>> THEN <<>> ELSE SatelliteBlock(Head(ss), k) \o SlotVars(k, Tail(ss))

RECURSIVE SearchOrderFrom(_)
SearchOrderFrom(ks) ==
    IF ks = <<>> THEN <<>>
    ELSE SlotVars(Head(ks), SetToSeq(DOMAIN statellite)) \o SearchOrderFrom(Tail(ks))

SearchOrder == SearchOrderFrom(combined_slots)

SetMax(S) == CHOOSE w \in S : \A u \in S : u <= w

SetMin(S) == CHOOSE w \in S : \A u \in S : w <= u

\* the values of v worth trying after a: a binary variable's two values; for a continuous
\* variable its bounds, tightened by every constraint that has coefficient 1 on v and
\* all its other variables fixed
Candidates(v, a, watch) ==
    IF vars_[v].vtype = "B" THEN Domain(v)
    ELSE LET ready == {c \in watch : /\ c.lhs[v] = 1
                                      /\ (DOMAIN c.lhs) \ {v} \subseteq DOMAIN a}
             Room(c) == Scale * c.rhs - LinearSum(c.lhs, a, (DOMAIN c.lhs) \ {v})
             his == {Room(c) : c \in {f \in ready : f.sense \in {"<=", "=="}}}
             los == {Room(c) : c \in {f \in ready : f.sense \in {">=", "=="}}}
         IN  SetMax(los \cup {Lower(v)})..SetMin(his \cup {Upper(v)})

\* every way to extend a over order[i..] that violates no constraint whose variables are fixed
RECURSIVE Extend(_, _, _, _)
Extend(a, i, order, watch) ==
    IF i > Len(order) THEN {a}
    ELSE LET v == order[i]
             next == {b \in {a @@ (v :> val) : val \in Candidates(v, a, watch[v])} :
                         \A c \in watch[v] : (DOMAIN c.lhs \subseteq DOMAIN b) => Holds(c, b)}
         IN  UNION {Extend(b, i + 1, order, watch) : b \in next}

\* for each variable, the constraints that mention it
RECURSIVE WatchOf(_)
WatchOf(keys) ==
    IF keys = {} THEN <<>>
    ELSE LET v == CHOOSE u \in keys : TRUE
         IN  (v :> {c \in constrs : v \in DOMAIN c.lhs}) @@ WatchOf(keys \ {v})

\* all assignments the oracle may accept
FeasibleSet(order, watch) == {a \in Extend(<<>>, 1, order, watch) : Feasible(a)}

\* the objective value of a, times 10 * Scale
ObjVal(a) == LinearSum(objective, a, DOMAIN objective)

\* eos_model.optimize() over the feasible set fs: infeasible, or optimal with a best
\* assignment, or stopped on a limit with the incumbent (any feasible assignment) or none
optimize(fs) ==
    IF fs = {}
    THEN /\ status' = "INFEASIBLE"
         /\ sol' = NoSolution
    ELSE \E vals \in {{ObjVal(a) : a \in fs}} :
            \/ \E a \in fs :
                 /\ ObjVal(a) = SetMax(vals)
                 /\ status' = "OPTIMAL"
                 /\ sol' = [SolCount |-> 1, x |-> a]
            \/ \E a \in fs :
                 /\ status' = "TIME_LIMIT"
                 /\ sol' = [SolCount |-> 1, x |-> a]
            \/ /\ status' = "TIME_LIMIT"
               /\ sol' = NoSolution

\* the if / elif / else of solve_mip on eos_model.status, by what the branch prints first
branch(st) ==
    CASE st = "INFEASIBLE" -> "The model is infeasible."
      [] st = "OPTIMAL" -> "Optimal solution found with objective value:"
      [] OTHER -> "Optimization ended with status:"

\* a write of the running process to the path name: the file is created or replaced
Write(disk, name, content) ==
    [n \in (DOMAIN disk) \cup {name} |->
        IF n = name THEN [by |-> run_id, content |-> content] ELSE disk[n]]

\* solve_mip: optimize, write("eos.lp") with the model's variables, then the branch on the
\* status: the infeasible branch writes the IIS to "model.ilp"; the Optimal branch reads
\* self.combined_slots[-1], an IndexError when there is no slot at all
solve_mip ==
    /\ pc = "solve_mip"
    /\ \E order \in {SearchOrder}, watch \in {WatchOf(DOMAIN vars_)} :
          \E fs \in {FeasibleSet(order, watch)} : optimize(fs)
    /\ files' = LET lp == Write(files, "eos.lp", DOMAIN vars_)
                IN  IF status' = "INFEASIBLE" THEN Write(lp, "model.ilp", "IIS") ELSE lp
    /\ console' = branch(status')
    /\ pc' = IF status' = "OPTIMAL" /\ combined_slots = <<>> THEN "error" ELSE "solved"
    /\ UNCHANGED <<run_id, other,
                   downlink_df, vtw_df, downlink, groudstation, statellite, target, vtw,
                   rechargewindow,
                   time_slots, dl_time_slots, combined_slots, vt_window, downlink_window,
                   recharge_window, vars_, constrs, objective, memory_data, target_data>>

-----------------------------------------------------------------------------
(* OutputBuilder *)

\* round(v / Scale, 2), in hundredths
Round2(v) == (200 * v + Scale) \div (2 * Scale)

\* var.x > 0.5 for a binary variable
Selected(v) == 2 * sol.x[v] > 1

\* the number of selected observations of satellite s in slot k
observations_this_slot(s, k) ==
    Cardinality({v \in KeysOf("x") : v[2] = s /\ v[4] = k /\ Selected(v)})

RECURSIVE SumValues(_)
SumValues(keys) ==
    IF keys = {} THEN 0
    ELSE LET v == CHOOSE u \in keys : TRUE IN sol.x[v] + SumValues(keys \ {v})

\* the volume of the selected downlinks of satellite s in slot k, times Scale
data_downlinked(s, k) ==
    SumValues({dKey(v[2], v[3], v[4]) :
                  v \in {u \in KeysOf("y") : u[2] = s /\ u[4] = k /\ Selected(u)}}
              \cap DOMAIN vars_)

\* generate_memory_tracking: one row per satellite and combined slot
generate_memory_tracking ==
    [key \in {q \in (DOMAIN statellite) \X Range(combined_slots) :
                 mKey(q[1], q[2]) \in DOMAIN vars_} |->
        [memory_level |-> Round2(sol.x[mKey(key[1], key[2])]),
         observations |-> observations_this_slot(key[1], key[2]),
         data_added |-> observations_this_slot(key[1], key[2]) * data_per_obs,
         data_downlinked |-> Round2(data_downlinked(key[1], key[2]))]]

\* generate_target_analysis: 'Observed' is 'Yes' when some selected x names the target
generate_target_analysis ==
    [t \in DOMAIN target |->
        IF \E v \in KeysOf("x") : v[3] = t /\ Selected(v) THEN "Yes" ELSE "No"]

\* main.run after solver.run(): OutputBuilder(...).generate_all_outputs().  Reading var.x
\* without a solution raises, and so does combined_slots[-1] without a slot
\* (before any file is written); the reports go to fixed names in the Output directory
generate_all_outputs ==
    /\ pc = "solved"
    /\ IF sol.SolCount = 0 \/ combined_slots = <<>>
       THEN /\ pc' = "error"
            /\ UNCHANGED <<memory_data, target_data, files>>
       ELSE /\ pc' = "done"
            /\ target_data' = generate_target_analysis
            /\ memory_data' = generate_memory_tracking
            /\ files' = Write(Write(files, "Output/target_analysis.csv", target_data'),
                              "Output/memory_tracking.csv", memory_data')
    /\ UNCHANGED <<run_id, other,
                   downlink_df, vtw_df, downlink, groudstation, statellite, target, vtw,
                   rechargewindow,
                   time_slots, dl_time_slots, combined_slots, vt_window, downlink_window,
                   recharge_window, vars_, constrs, objective, status, sol,
                   console>>

-----------------------------------------------------------------------------
(* Properties *)

\* the oracle returned an assignment: an accepted solution
Accepted == sol.SolCount = 1

\* create_constraints has run
ModelBuilt == pc \in {"create_objective", "solve_mip", "solved", "done"}

\* the selected observation variables of satellite s in slot k
ActiveObs(s, k) == {v \in KeysOf("x") : v[2] = s /\ v[4] = k /\ sol.x[v] = 1}

\* the volume satellite s downlinks in slot k over all stations, times Scale
SumD(s, k) == SumValues({v \in KeysOf("d") : v[2] = s /\ v[4] = k})

\* a VisibilityWindow / DownlinkWindow / recharge record names the triple or pair
VtwNames(s, t, k) ==
    \E i \in 1..Len(vtw) :
        vtw[i].satelliteid = s /\ vtw[i].target_id = t /\ strip(vtw[i].timeSlotStart) = k

DownlinkNames(s, g, k) ==
    \E i \in 1..Len(downlink) :
        /\ downlink[i].satelliteid = s
        /\ downlink[i].groundstationid = g
        /\ strip(downlink[i].timeSlotStart) = k

RechargeNames(s, k) ==
    \E i \in 1..Len(rechargewindow) :
        rechargewindow[i].satelliteid = s /\ strip(rechargewindow[i].timeSlotStart) = k

\* C1: in every accepted solution, for every satellite s and combined slot k,
\* 0 <= m[s,k] <= memory_capacity of s and 0 <= p[s,k] <= power_capacity.
C1_ResourceBounds ==
    Accepted =>
        \A s \in DOMAIN statellite, k \in Range(combined_slots) :
            /\ 0 <= sol.x[mKey(s, k)]
            /\ sol.x[mKey(s, k)] <= Scale * statellite[s].memory_capacity
            /\ 0 <= sol.x[pKey(s, k)]
            /\ sol.x[pKey(s, k)] <= Scale * power_capacity

\* an accepted solution in which a satellite's memory is full and its power is drawn down
C1_Witness ==
    /\ Accepted
    /\ \E s \in DOMAIN statellite, k \in Range(combined_slots) :
          /\ sol.x[mKey(s, k)] = Scale * statellite[s].memory_capacity
          /\ sol.x[pKey(s, k)] < Scale * power_capacity

\* the memory level the balance gives satellite s at combined_slots[idx], times Scale
MemoryRecurrence(s, idx) ==
    (IF idx = 1 THEN 0 ELSE sol.x[mKey(s, combined_slots[idx - 1])])
        + Scale * data_per_obs * Cardinality(ActiveObs(s, combined_slots[idx]))
        - SumD(s, combined_slots[idx])

\* the reported 'Memory Level' of satellite s at combined_slots[idx] minus the level
\* recomputed from the previous reported level, 'Data Added' and 'Data Downlinked',
\* in hundredths
ReportGap(s, idx) ==
    memory_data[<<s, combined_slots[idx]>>].memory_level
        - ( (IF idx = 1 THEN 0 ELSE memory_data[<<s, combined_slots[idx - 1]>>].memory_level)
            + 100 * memory_data[<<s, combined_slots[idx]>>].data_added
            - memory_data[<<s, combined_slots[idx]>>].data_downlinked )

C2_Balance ==
    Accepted =>
        \A s \in DOMAIN statellite, idx \in 1..Len(combined_slots) :
            sol.x[mKey(s, combined_slots[idx])] = MemoryRecurrence(s, idx)

\* C2 as stated: the memory level follows the balance recurrence, and recomputing it from
\* the reported per-slot figures reproduces the reported 'Memory Level' exactly.
C2_Original ==
    /\ C2_Balance
    /\ pc = "done" =>
          \A s \in DOMAIN statellite, idx \in 1..Len(combined_slots) : ReportGap(s, idx) = 0

\* C2 (amended): the memory level follows the balance recurrence, and recomputing it from
\* the reported per-slot figures reproduces the reported 'Memory Level' to within 0.01.
C2_MemoryRecurrence ==
    /\ C2_Balance
    /\ pc = "done" =>
          \A s \in DOMAIN statellite, idx \in 1..Len(combined_slots) :
              ReportGap(s, idx) \in {-1, 0, 1}

\* a reported schedule in which a satellite carries memory into a later slot and
\* downlinks part of it there
C2_Witness ==
    /\ pc = "done"
    /\ \E s \in DOMAIN statellite, idx \in 2..Len(combined_slots) :
          /\ sol.x[mKey(s, combined_slots[idx - 1])] > 0
          /\ SumD(s, combined_slots[idx]) > 0
          /\ sol.x[mKey(s, combined_slots[idx])] > 0

\* C3: in every accepted solution the power level starts from full capacity and follows
\* p[k] = p[k'] - 10 * observations - 5 * downlinked volume + 15 * recharge, where
\* recharge is 1 exactly when a recharge window record names the satellite and the slot.
C3_PowerRecurrence ==
    Accepted =>
        \A s \in DOMAIN statellite, idx \in 1..Len(combined_slots) :
            sol.x[pKey(s, combined_slots[idx])] =
                (IF idx = 1 THEN Scale * power_capacity
                 ELSE sol.x[pKey(s, combined_slots[idx - 1])])
                - Scale * power_per_obs * Cardinality(ActiveObs(s, combined_slots[idx]))
                - power_per_downlink * SumD(s, combined_slots[idx])
                + Scale * charge_rate_per_slot
                    * (IF RechargeNames(s, combined_slots[idx]) THEN 1 ELSE 0)

\* an accepted solution in which a satellite recharges, in the first slot or a later one,
\* while it observes or downlinks
C3_Witness ==
    /\ Accepted
    /\ \E s \in DOMAIN statellite, idx \in 1..Len(combined_slots) :
          /\ RechargeNames(s, combined_slots[idx])
          /\ ActiveObs(s, combined_slots[idx]) # {}
          /\ SumD(s, combined_slots[idx]) > 0

\* C4 as stated: in every accepted solution no satellite has more active observation
\* indicators than its own max_obs_per_day from the catalog.
C4_OwnObservationLimit ==
    Accepted =>
        \A s \in DOMAIN statellite :
            Cardinality({v \in KeysOf("x") : v[2] = s /\ sol.x[v] = 1})
                <= statellite[s].max_obs_per_day

\* C5: in every accepted solution at most one observation indicator is active per target.
C5_SingleObservation ==
    Accepted =>
        \A t \in DOMAIN target :
            Cardinality({v \in KeysOf("x") : v[3] = t /\ sol.x[v] = 1}) <= 1

\* an accepted solution observing a target that two visibility windows offer
C5_Witness ==
    /\ Accepted
    /\ \E t \in DOMAIN target :
          /\ Cardinality({v \in KeysOf("x") : v[3] = t /\ VtwNames(v[2], v[3], v[4])}) >= 2
          /\ \E v \in KeysOf("x") : v[3] = t /\ sol.x[v] = 1

\* C6: for every (station, downlink slot) pair at most one downlink indicator over the
\* satellites is active, for every (satellite, downlink slot) pair at most one over the
\* stations, and both constraints exist for every pair, also a pair without any window.
C6_DownlinkExclusive ==
    /\ ModelBuilt =>
          /\ \A g \in DOMAIN groudstation, k \in Range(dl_time_slots) :
                \E c \in constrs :
                    /\ c.name = <<"groundstation_conflict", g, k>>
                    /\ DOMAIN c.lhs = {yKey(s, g, k) : s \in DOMAIN statellite}
                    /\ \A v \in DOMAIN c.lhs : c.lhs[v] = 1
                    /\ c.sense = "<=" /\ c.rhs = 1
          /\ \A s \in DOMAIN statellite, k \in Range(dl_time_slots) :
                \E c \in constrs :
                    /\ c.name = <<"satellite_downlink_exclusivity", s, k>>
                    /\ DOMAIN c.lhs = {yKey(s, g, k) : g \in DOMAIN groudstation}
                    /\ \A v \in DOMAIN c.lhs : c.lhs[v] = 1
                    /\ c.sense = "<=" /\ c.rhs = 1
    /\ Accepted =>
          /\ \A g \in DOMAIN groudstation, k \in Range(dl_time_slots) :
                Cardinality({v \in KeysOf("y") : v[3] = g /\ v[4] = k /\ sol.x[v] = 1}) <= 1
          /\ \A s \in DOMAIN statellite, k \in Range(dl_time_slots) :
                Cardinality({v \in KeysOf("y") : v[2] = s /\ v[4] = k /\ sol.x[v] = 1}) <= 1

\* an accepted solution with a downlink at a station two satellites could both use in
\* that slot, while another (station, slot) pair has no window at all
C6_Witness ==
    /\ Accepted
    /\ \E g \in DOMAIN groudstation, k \in Range(dl_time_slots) :
          /\ \A s \in DOMAIN statellite : DownlinkNames(s, g, k)
          /\ \E s \in DOMAIN statellite : sol.x[yKey(s, g, k)] = 1
    /\ \E g \in DOMAIN groudstation, k \in Range(dl_time_slots) :
          \A s \in DOMAIN statellite : ~DownlinkNames(s, g, k)

\* C7: in every accepted solution y = 0 implies d = 0 (so d > 0 implies y = 1), and
\* y = 1 only where a DownlinkWindow record names (s, g, k).
C7_VolumeNeedsIndicator ==
    Accepted =>
        \A v \in KeysOf("y") :
            /\ sol.x[v] = 0 => sol.x[dKey(v[2], v[3], v[4])] = 0
            /\ sol.x[dKey(v[2], v[3], v[4])] > 0 => sol.x[v] = 1
            /\ sol.x[v] = 1 => DownlinkNames(v[2], v[3], v[4])

\* an accepted solution with a positive downlink volume, beside a closed window
C7_Witness ==
    /\ Accepted
    /\ \E v \in KeysOf("y") : sol.x[v] = 1 /\ sol.x[dKey(v[2], v[3], v[4])] > 0
    /\ \E v \in KeysOf("y") : ~DownlinkNames(v[2], v[3], v[4])

\* the number of recharge slots of satellite s among combined_slots[1..idx]
RECURSIVE RechargesUpTo(_, _)
RechargesUpTo(s, idx) ==
    IF idx = 0 THEN 0
    ELSE RechargeAt(s, combined_slots[idx]) + RechargesUpTo(s, idx - 1)

SlotIndex(k) == CHOOSE idx \in 1..Len(combined_slots) : combined_slots[idx] = k

\* nothing observed, nothing downlinked; memory and power follow their recurrences
ZeroAssignment ==
    [v \in DOMAIN vars_ |->
        IF v[1] = "p"
        THEN Scale * (power_capacity + charge_rate_per_slot * RechargesUpTo(v[2], SlotIndex(v[4])))
        ELSE 0]

\* C8 as stated: whatever the recharge windows, the assignment with no observation and no
\* downlink satisfies every constraint of the built model.
C8_ZeroFeasible == ModelBuilt => Feasible(ZeroAssignment)

\* C9 as stated: after Inputbuilder.build() the catalog holds a recharge-window
\* collection, so Solver(input_builder) in main.run succeeds.
C9_BuildHoldsRecharge == pc = "built" => rechargewindow # NoAttr

\* C10 as stated: an x variable exists only for a triple a VisibilityWindow record
\* supplies, a y or d variable only for a triple a DownlinkWindow record supplies.
C10_SparseVariables ==
    /\ \A v \in KeysOf("x") : VtwNames(v[2], v[3], v[4])
    /\ \A v \in KeysOf("y") \cup KeysOf("d") : DownlinkNames(v[2], v[3], v[4])

\* no VisibilityWindow record names target t, for any satellite
Unseen(t) == \A i \in 1..Len(vtw) : vtw[i].target_id # t

\* C11: a target without any VisibilityWindow record has every observation indicator 0
\* in every accepted solution, and generate_target_analysis reports it Observed = 'No'.
C11_UnseenNotObserved ==
    /\ Accepted =>
          \A t \in DOMAIN target :
              Unseen(t) => \A v \in KeysOf("x") : v[3] = t => sol.x[v] = 0
    /\ pc = "done" =>
          \A t \in DOMAIN target : Unseen(t) => target_data[t] = "No"

\* a report with one target observed and another, without any window, listed not observed
C11_Witness ==
    /\ pc = "done"
    /\ \E t \in DOMAIN target : Unseen(t) /\ target_data[t] = "No"
    /\ \E t \in DOMAIN target : target_data[t] = "Yes"

\* the catalog of one satellite of memory capacity 5, one target with a single visibility
\* window, one station with a downlink window in the same slot, and no recharge window
C12Scenario ==
    /\ rechargewindow # NoAttr
    /\ Cardinality(DOMAIN statellite) = 1
    /\ Cardinality(DOMAIN target) = 1
    /\ Cardinality(DOMAIN groudstation) = 1
    /\ \A s \in DOMAIN statellite : statellite[s].memory_capacity = data_per_obs
    /\ Len(vtw) = 1 /\ Len(downlink) = 1
    /\ vtw[1].satelliteid \in DOMAIN statellite
    /\ vtw[1].target_id \in DOMAIN target
    /\ downlink[1].satelliteid = vtw[1].satelliteid
    /\ downlink[1].groundstationid \in DOMAIN groudstation
    /\ downlink[1].timeSlotStart = vtw[1].timeSlotStart
    /\ Len(rechargewindow) = 0

\* C12 as stated: in that catalog every optimal solution schedules the observation and
\* has m[s,T1] = 5, the memory capacity.
C12_Original ==
    (status = "OPTIMAL" /\ Accepted /\ C12Scenario) =>
        /\ sol.x[xKey(vtw[1].satelliteid, vtw[1].target_id, vtw[1].timeSlotStart)] = 1
        /\ sol.x[mKey(vtw[1].satelliteid, vtw[1].timeSlotStart)] = Scale * data_per_obs

\* C12 (amended): in that catalog every optimal solution schedules the observation,
\* downlinks its 5 GB in the same slot and has m[s,T1] = 0.
C12_BoundaryScenario ==
    (status = "OPTIMAL" /\ Accepted /\ C12Scenario) =>
        /\ sol.x[xKey(vtw[1].satelliteid, vtw[1].target_id, vtw[1].timeSlotStart)] = 1
        /\ sol.x[dKey(vtw[1].satelliteid, downlink[1].groundstationid,
                      vtw[1].timeSlotStart)] = Scale * data_per_obs
        /\ sol.x[mKey(vtw[1].satelliteid, vtw[1].timeSlotStart)] = 0

\* the optimal solution of that catalog
C12_Witness == pc = "solved" /\ status = "OPTIMAL" /\ Accepted /\ C12Scenario

\* two different satellites both have a DownlinkWindow record to station g in slot k
BothEligible(s1, s2, g, k) ==
    s1 # s2 /\ DownlinkNames(s1, g, k) /\ DownlinkNames(s2, g, k)

\* C14: where two satellites both have a DownlinkWindow to the same station in the same
\* slot, forcing both indicators to 1 makes the built model infeasible (some constraint
\* is violated whatever the other variables are), and no accepted solution has both.
C14_ForcedBothInfeasible ==
    ModelBuilt =>
        \A g \in DOMAIN groudstation, k \in Range(dl_time_slots),
           s1 \in DOMAIN statellite, s2 \in DOMAIN statellite :
            BothEligible(s1, s2, g, k) =>
                /\ \E c \in constrs :
                      /\ {yKey(s1, g, k), yKey(s2, g, k)} \subseteq DOMAIN c.lhs
                      /\ \A a \in [DOMAIN c.lhs -> {0, 1}] :
                            (a[yKey(s1, g, k)] = 1 /\ a[yKey(s2, g, k)] = 1) => ~Holds(c, a)
                /\ Accepted => ~(sol.x[yKey(s1, g, k)] = 1 /\ sol.x[yKey(s2, g, k)] = 1)

\* an accepted solution in which one of two eligible satellites downlinks a positive
\* volume to the shared station
C14_Witness ==
    /\ Accepted
    /\ \E g \in DOMAIN groudstation, k \in Range(dl_time_slots),
          s1 \in DOMAIN statellite, s2 \in DOMAIN statellite :
          /\ BothEligible(s1, s2, g, k)
          /\ sol.x[dKey(s1, g, k)] > 0
          /\ sol.x[yKey(s2, g, k)] = 0

\* C15 as stated: when the status after solve_mip is not Optimal the run is not treated
\* as success: no report is produced from the solver's variable values.
C15_OnlyOptimalReported ==
    (pc = "done" \/ memory_data # <<>> \/ target_data # <<>>) => status = "OPTIMAL"

\* C16 as stated: when the oracle stops on its time limit holding a feasible solution,
\* solve_mip takes the Optimal branch, not the branch of an unrecognised status.
C16_TimeLimitAsOptimal ==
    (status = "TIME_LIMIT" /\ Accepted) => console = branch("OPTIMAL")

\* the string holds neither an en-dash nor a hyphen (45)
NoSeparator(str) == ~Contains(str, ENDASH) /\ ~Contains(str, 45)

\* nothing of a Solver exists
NoSolver == rechargewindow = NoAttr /\ SolverUnset

\* C17: a 'Time Slot' without separator in a Downlink or VTW row makes build() fail
\* before any Solver is constructed; no record and no slot label comes from that row.
C17_MalformedFailsBuild ==
    /\ \A i \in 1..Len(downlink_df) :
          NoSeparator(downlink_df[i].time_slot) =>
              pc = "error" /\ Len(downlink) < i /\ vtw = <<>> /\ NoSolver
    /\ \A i \in 1..Len(vtw_df) :
          NoSeparator(vtw_df[i].time_slot) => pc = "error" /\ Len(vtw) < i /\ NoSolver

\* a build that failed on a VTW row without separator after Downlink.csv was loaded
C17_Witness ==
    /\ pc = "error"
    /\ Len(downlink) > 0
    /\ \E i \in 1..Len(vtw_df) : NoSeparator(vtw_df[i].time_slot)

\* 'a - b': the interval is written with the ASCII hyphen (45)
HyphenForm(str) == Contains(str, 45) /\ ~Contains(str, ENDASH)

\* the same interval written with the en-dash
EnDashForm(str) == [j \in 1..Len(str) |-> IF str[j] = 45 THEN ENDASH ELSE str[j]]

\* C18 as stated: an interval written with the hyphen is parsed into the same two
\* trimmed labels as the interval written with the en-dash.
C18_HyphenParsed ==
    /\ \A i \in 1..Len(downlink_df) :
          HyphenForm(downlink_df[i].time_slot) =>
              /\ Len(downlink) >= i
              /\ downlink[i].timeSlotStart = time_slot_start(EnDashForm(downlink_df[i].time_slot))
              /\ downlink[i].timeSlotEnd = time_slot_end(EnDashForm(downlink_df[i].time_slot))
    /\ \A i \in 1..Len(vtw_df) :
          HyphenForm(vtw_df[i].time_slot) =>
              /\ Len(vtw) >= i
              /\ vtw[i].timeSlotStart = time_slot_start(EnDashForm(vtw_df[i].time_slot))
              /\ vtw[i].timeSlotEnd = time_slot_end(EnDashForm(vtw_df[i].time_slot))

\* Solver.__init__ has run to its end
SolverBuilt ==
    pc \in {"create_decision_variables", "create_constraints", "create_objective",
            "solve_mip", "solved", "done"}

StrictlyIncreasing(seq) == \A i \in 1..(Len(seq) - 1) : StrLess(seq[i], seq[i + 1])

\* C19: time_slots and dl_time_slots are the strictly increasing sequences of the distinct
\* trimmed start labels of the visibility and of the downlink windows, and combined_slots
\* is strictly increasing and holds exactly their union.
C19_SlotMapping ==
    SolverBuilt =>
        /\ StrictlyIncreasing(time_slots)
        /\ Range(time_slots) = {strip(vtw[i].timeSlotStart) : i \in 1..Len(vtw)}
        /\ StrictlyIncreasing(dl_time_slots)
        /\ Range(dl_time_slots) = {strip(downlink[i].timeSlotStart) : i \in 1..Len(downlink)}
        /\ StrictlyIncreasing(combined_slots)
        /\ Range(combined_slots) = Range(time_slots) \cup Range(dl_time_slots)

\* a Solver built from windows that share a start label between the visibility and the
\* downlink windows, with two labels in all
C19_Witness ==
    /\ SolverBuilt
    /\ Len(vtw) + Len(downlink) > Len(combined_slots)
    /\ Len(combined_slots) = 2
    /\ Range(time_slots) \cap Range(dl_time_slots) # {}

\* the coverage value of assignment a: sum of urgency * importance over its active
\* observations, in the units of ObjVal
Coverage(a) == LinearSum(objective, a, KeysOf("x"))

\* C13 as stated: the downlink bonus never overrides a coverage trade-off: every optimal
\* solution attains the largest coverage value of all accepted solutions.
C13_CoverageFirst ==
    (pc = "solved" /\ status = "OPTIMAL" /\ Accepted) =>
        \A order \in {SearchOrder}, watch \in {WatchOf(DOMAIN vars_)} :
            \A fs \in {FeasibleSet(order, watch)} :
                \A a \in fs : Coverage(a) <= Coverage(sol.x)

\* the first idx combined slots
Prefix(idx) == {combined_slots[j] : j \in 1..idx}

\* the volume satellite s has downlinked in the first idx combined slots, times Scale
DownlinkedUpTo(s, idx) ==
    SumValues({v \in KeysOf("d") : v[2] = s /\ v[4] \in Prefix(idx)})

\* the number of observations satellite s has made in the first idx combined slots
ObservedUpTo(s, idx) ==
    Cardinality({v \in KeysOf("x") : v[2] = s /\ v[4] \in Prefix(idx) /\ sol.x[v] = 1})

\* C22: in every accepted solution, for every satellite and every prefix of combined_slots,
\* the volume the satellite has downlinked in the prefix is at most data_per_obs (5) times
\* the number of observations it has made in the prefix.
C22_DownlinkWithinObserved ==
    Accepted =>
        \A s \in DOMAIN statellite, idx \in 1..Len(combined_slots) :
            DownlinkedUpTo(s, idx) <= Scale * data_per_obs * ObservedUpTo(s, idx)

\* an accepted solution where a satellite downlinks, in a slot where it observes nothing,
\* the whole volume it has observed before
C22_Witness ==
    /\ Accepted
    /\ \E s \in DOMAIN statellite, idx \in 2..Len(combined_slots) :
          /\ ActiveObs(s, combined_slots[idx]) = {}
          /\ SumD(s, combined_slots[idx]) > 0
          /\ DownlinkedUpTo(s, idx) = Scale * data_per_obs * ObservedUpTo(s, idx)

\* C23 as stated: in every accepted solution no satellite has two active observation
\* indicators in the same observation slot.
C23_OneObservationPerSlot ==
    Accepted =>
        \A s \in DOMAIN statellite, k \in Range(time_slots) :
            Cardinality(ActiveObs(s, k)) <= 1

\* the constraints that mention variable v
Mentioning(v) == {c \in constrs : v \in DOMAIN c.lhs}

OwnOutputs(r, at, target_rows, memory_rows) ==
    /\ at \in {"solved", "done"} =>
          /\ "eos.lp" \in DOMAIN files
          /\ files["eos.lp"].by = r
    /\ at = "done" =>
          /\ "Output/target_analysis.csv" \in DOMAIN files
          /\ files["Output/target_analysis.csv"] = [by |-> r, content |-> target_rows]
          /\ "Output/memory_tracking.csv" \in DOMAIN files
          /\ files["Output/memory_tracking.csv"] = [by |-> r, content |-> memory_rows]

\* C21 as stated: two runs executed concurrently on the same catalog share no mutable
\* resource: in every interleaving of their solve and report steps, the model file and the
\* report files of each run are derived from that run's own variable set only.
C21_OwnOutputs ==
    /\ OwnOutputs(run_id, pc, target_data, memory_data)
    /\ OwnOutputs(3 - run_id, other.pc, other.target_data, other.memory_data)

Next ==
    \/ read_downlink_data
    \/ read_groundstation_data
    \/ read_statellite_data
    \/ read_target_data
    \/ read_vtw_data
    \/ run_Solver
    \/ call_Solver
    \/ create_decision_variables
    \/ create_constraints
    \/ create_objective
    \/ solve_mip
    \/ generate_all_outputs

Spec == Init /\ [][Next]_vars

-----------------------------------------------------------------------------
(* The model builder and the oracle on catalogs where the power budget couples *)
(* observations and downlinks: one satellite, four targets of equal value      *)
(* visible in the first slot, one station reachable in both slots.             *)

BonusTargetIds == {"T1", "T2", "T3", "T4"}

\* urgency 0.1 or 1.0, in tenths
BonusUrgencies == {1, 10}

BonusVtwFile ==
    SetToSeq([time_slot : {Interval(Digit(1), ENDASH, Digit(2))},
              satellite_id : {"S1"}, target_id : BonusTargetIds])

BonusDownlinkFile ==
    SetToSeq([time_slot : TimeSlotStrings, satellite_id : {"S1"},
              groundstation_id : {"G1"}, max_data : {8}])

\* the Inputbuilder after build() on such a catalog
InitBonus ==
    /\ pc = "built"
    /\ downlink_df = BonusDownlinkFile
    /\ vtw_df = BonusVtwFile
    /\ downlink = [i \in 1..Len(BonusDownlinkFile) |-> Downlink(BonusDownlinkFile[i])]
    /\ groudstation = ById(<<StationRow("G1")>>)
    /\ statellite = ById(<<SatelliteRow("S1")>>)
    /\ \E u \in BonusUrgencies :
          target = [t \in BonusTargetIds |-> [id |-> t, urgency |-> u, importance |-> 1]]
    /\ vtw = [i \in 1..Len(BonusVtwFile) |-> Visual_Time_Window(BonusVtwFile[i])]
    /\ rechargewindow = NoAttr
    /\ SolverUnset
    /\ SingleRun

NextBonus ==
    \/ run_Solver
    \/ call_Solver
    \/ create_decision_variables
    \/ create_constraints
    \/ create_objective
    \/ solve_mip
    \/ generate_all_outputs

SpecBonus == InitBonus /\ [][NextBonus]_vars

-----------------------------------------------------------------------------
(* Two processes run main.run at the same time on the same catalog, in the    *)
(* same directory.  Each has its own Solver and eos_model; the models are     *)
(* equal, being built from the same catalog.  The process that is running     *)
(* occupies pc, status, sol, console, memory_data and target_data; the other  *)
(* one is held in the record other.                                           *)

\* the VTW.csv files of the catalogs the two processes read: one well-formed record
ConcurrentVtwFiles == {f \in VtwFiles : Len(f) = 1 /\ RowsLoaded(f) = 1}

\* both processes have built their model and are about to call solve_mip
InitConcurrent ==
    /\ pc = "solve_mip"
    /\ downlink_df = <<>> /\ downlink = <<>>
    /\ \E f \in ConcurrentVtwFiles :
          /\ vtw_df = f
          /\ vtw = [i \in 1..Len(f) |-> Visual_Time_Window(f[i])]
    /\ groudstation = ById(<<StationRow("G1"), StationRow("G2")>>)
    /\ statellite = ById(<<SatelliteRow("S1"), SatelliteRow("S2")>>)
    /\ target = ById(<<TargetRow("T1"), TargetRow("T2")>>)
    /\ rechargewindow = <<>>
    /\ time_slots = _create_time_slot_mapping[1]
    /\ dl_time_slots = _create_time_slot_mapping[2]
    /\ combined_slots = CombinedSlots(time_slots, dl_time_slots)
    /\ vt_window = _build_vtw_parameters(time_slots)
    /\ downlink_window = _build_downlink_parameters(dl_time_slots)
    /\ recharge_window = _build_recharge_parameters(rechargewindow, combined_slots)
    /\ vars_ = DecisionVariables
    /\ constrs = Constraints
    /\ objective = Objective
    /\ status = "LOADED" /\ sol = NoSolution
    /\ console = "" /\ memory_data = <<>> /\ target_data = <<>>
    /\ run_id = 1
    /\ other = [NoRun EXCEPT !.pc = "solve_mip"]
    /\ files = <<>>

\* the operating system runs the other process next, if it has a step left
switch_process ==
    /\ other.pc \in {"solve_mip", "solved"}
    /\ run_id' = 3 - run_id
    /\ pc' = other.pc
    /\ status' = other.status
    /\ sol' = other.sol
    /\ console' = other.console
    /\ memory_data' = other.memory_data
    /\ target_data' = other.target_data
    /\ other' = [pc |-> pc, status |-> status, sol |-> sol, console |-> console,
                 memory_data |-> memory_data, target_data |-> target_data]
    /\ UNCHANGED <<files,
                   downlink_df, vtw_df, downlink, groudstation, statellite, target, vtw,
                   rechargewindow,
                   time_slots, dl_time_slots, combined_slots, vt_window, downlink_window,
                   recharge_window, vars_, constrs, objective>>

NextConcurrent ==
    \/ solve_mip
    \/ generate_all_outputs
    \/ switch_process

SpecConcurrent == InitConcurrent /\ [][NextConcurrent]_vars

====
